---- MODULE Spec2Model ----
(***************************************************************************)
(* The Garmin web backend of src/app.py: the two request handlers          *)
(* login_and_fetch (POST /login-and-fetch) and get_data (GET /get-data),   *)
(* the two config writers update_config_file and                           *)
(* clear_credentials_in_config, the external sync tool and the SQLite      *)
(* database file.  Handlers run as threads of one process: they share the  *)
(* module-level dict DEFAULT_CONFIG_STRUCTURE, the config file and the     *)
(* database file.  Each handler is cut into steps at the points where it   *)
(* reads or writes one of these shared things.                             *)
(***************************************************************************)
EXTENDS Naturals, FiniteSets, TLC

\* Bounds of the model.
NumSyncWorkers == 2
NumFetchWorkers == 1

SyncWorkers == 1..NumSyncWorkers
FetchWorkers == 1..NumFetchWorkers

\* data.get(...) returning None, and a part of a file not written yet.
Missing == "<missing>"
Unwritten == "<unwritten>"

\* The user whose requests worker w serves: each worker its own, so that the
\* credentials of two requests in flight differ.
CredentialsOf(w) ==
    IF w = 1 THEN [username |-> "alice", password |-> "secret"]
    ELSE IF w = 2 THEN [username |-> "bob", password |-> "hunter2"]
    ELSE [username |-> "carol", password |-> "letmein"]

\* Request bodies: the valid pair, and bodies lacking a field or carrying an
\* empty one (a body that is no JSON at all reads as both fields missing).
Bodies(w) ==
    { CredentialsOf(w),
      [username |-> Missing, password |-> Missing],
      [username |-> Missing, password |-> CredentialsOf(w).password],
      [username |-> CredentialsOf(w).username, password |-> Missing],
      [username |-> "", password |-> CredentialsOf(w).password],
      [username |-> CredentialsOf(w).username, password |-> ""] }

NoBody == [username |-> Missing, password |-> Missing]

\* `not data`, `not username or not password` of login_and_fetch.
ValidCredentials_usernameOnly(body) ==
    body.username # Missing /\ body.username # ""

ValidCredentials(body) ==
    /\ body.username # Missing /\ body.username # ""
    /\ body.password # Missing /\ body.password # ""

\* Files.  json.dump writes the document piece by piece: the username is on
\* file before the password and the rest of the document are.
NoFile == [exists |-> FALSE, username |-> Unwritten, password |-> Unwritten]
EmptyFile == [exists |-> TRUE, username |-> Unwritten, password |-> Unwritten]

Complete(f) == f.exists /\ f.username # Unwritten /\ f.password # Unwritten

Document(c) == [exists |-> TRUE, username |-> c.username, password |-> c.password]

\* An absent config file holds no credentials (clear_credentials_in_config:
\* "If file doesn't exist, credentials are clear").
CredentialsBlank(f) == f.exists => (f.username = "" /\ f.password = "")

\* The "connection" dict of DEFAULT_CONFIG_STRUCTURE.
DEFAULT_CONFIG_STRUCTURE == [username |-> "", password |-> ""]

\* load_config_template: DEFAULT_CONFIG_STRUCTURE.copy() is a shallow copy, so
\* config_data['connection'] is the module's own dict, whatever it holds now.
load_config_template(shared) == shared

\* Responses: status, and the fields of the JSON body.
Response(status, success, activities, message, error) ==
    [status |-> status, success |-> success, activities |-> activities,
     message |-> message, error |-> error]

NoResponse == Response(0, FALSE, "absent", FALSE, FALSE)
BadRequestResponse == Response(400, FALSE, "absent", FALSE, TRUE)
ConfigFailedResponse == Response(500, FALSE, "absent", FALSE, TRUE)
NoDatabaseAfterSyncResponse_fatal == Response(500, FALSE, "absent", FALSE, TRUE)
NoDatabaseAfterSyncResponse == Response(200, TRUE, "empty", TRUE, FALSE)
ActivitiesResponse == Response(200, TRUE, "rows", FALSE, FALSE)
SyncFailedResponse == Response(500, FALSE, "absent", FALSE, TRUE)
SyncTimeoutResponse == Response(504, FALSE, "absent", FALSE, TRUE)
ToolNotFoundResponse == Response(500, FALSE, "absent", FALSE, TRUE)
StorageErrorResponse(synced) ==
    IF synced THEN Response(200, TRUE, "empty", TRUE, FALSE)
    ELSE Response(500, FALSE, "absent", FALSE, TRUE)
GetDataNoDatabaseResponse == Response(200, FALSE, "empty", TRUE, FALSE)
GetDataResponse == Response(200, FALSE, "rows", FALSE, FALSE)
GetDataStorageErrorResponse == Response(500, FALSE, "absent", FALSE, TRUE)

\* subprocess.run is called without timeout=: TimeoutExpired is never raised.
SyncTimeoutConfigured == FALSE

\* The database file: absent, present and answering the activities query, or
\* present and failing it with sqlite3.Error (no activities table, locked).
DbStates == {"absent", "ok", "unreadable"}

\* What a run of the sync tool may leave behind: it creates or updates the
\* database file, it never removes it.
DbAfterSync(db) == {db, "ok", "unreadable"}

VARIABLES
    template,      \* DEFAULT_CONFIG_STRUCTURE['connection'], shared by all threads
    disk,          \* GARMINDB_CONFIG_FILE
    dbState,       \* GARMINDB_DATABASE_PATH
    pc,            \* login_and_fetch: where each worker stands
    cred,          \* login_and_fetch: username, password
    tmp,           \* temp_path of the writer the worker is in
    resp,          \* login_and_fetch: the response being returned
    sync_success,  \* login_and_fetch: sync_success
    conn,          \* login_and_fetch: conn
    seen,          \* what the worker saw: the tool's exit, os.path.exists
    did,           \* which calls the request has made so far
    gpc,           \* get_data: where each worker stands
    gresp,         \* get_data: the response being returned
    gconn,         \* get_data: conn
    gseen          \* get_data: os.path.exists

vars == <<template, disk, dbState, pc, cred, tmp, resp, sync_success, conn,
          seen, did, gpc, gresp, gconn, gseen>>

fetchVars == <<gpc, gresp, gconn, gseen>>

NothingSeen == [exit |-> "none", db |-> "unchecked"]

UpdatePcs == {"upd_user", "upd_pass", "upd_mkstemp", "upd_dump_user",
              "upd_dump_pass", "upd_rename"}
ClearPcs == {"clr_user", "clr_pass", "clr_mkstemp", "clr_dump_user",
             "clr_dump_pass", "clr_rename"}

Active(w) == pc[w] \notin {"idle", "done"}
NoActiveSync == \A w \in SyncWorkers : ~Active(w)

Init ==
    /\ template = DEFAULT_CONFIG_STRUCTURE
    /\ disk = NoFile
    /\ dbState = "absent"
    /\ pc = [w \in SyncWorkers |-> "idle"]
    /\ cred = [w \in SyncWorkers |-> NoBody]
    /\ tmp = [w \in SyncWorkers |-> NoFile]
    /\ resp = [w \in SyncWorkers |-> NoResponse]
    /\ sync_success = [w \in SyncWorkers |-> FALSE]
    /\ conn = [w \in SyncWorkers |-> "none"]
    /\ seen = [w \in SyncWorkers |-> NothingSeen]
    /\ did = [w \in SyncWorkers |-> {}]
    /\ gpc = [f \in FetchWorkers |-> "idle"]
    /\ gresp = [f \in FetchWorkers |-> NoResponse]
    /\ gconn = [f \in FetchWorkers |-> "none"]
    /\ gseen = [f \in FetchWorkers |-> "unchecked"]


\* ------------------------------------------------------------ login_and_fetch

\* The diagnostic block between the credential write and the sync (the import
\* check, pip freeze) only logs and catches its own exceptions: it has no step
\* here.  Nor has the last `except Exception` of the handler: the steps below
\* raise nothing but the exceptions the earlier handlers name.

\* The request arrives: request.get_json, the two checks of the body.
LoginAndFetch(w) ==
    /\ pc[w] = "idle"
    /\ \E body \in Bodies(w) :
        /\ cred' = [cred EXCEPT ![w] = body]
        /\ IF ValidCredentials(body)
           THEN /\ pc' = [pc EXCEPT ![w] = "upd_user"]
                /\ resp' = resp
           ELSE /\ pc' = [pc EXCEPT ![w] = "done"]
                /\ resp' = [resp EXCEPT ![w] = BadRequestResponse]
    /\ UNCHANGED <<template, disk, dbState, tmp, sync_success, conn, seen, did>>
    /\ UNCHANGED fetchVars

\* ---------------------------------------------------------- update_config_file

\* config_data['connection']['username'] = username
UpdateSetUsername(w) ==
    /\ pc[w] = "upd_user"
    /\ template' = [load_config_template(template) EXCEPT !.username = cred[w].username]
    /\ did' = [did EXCEPT ![w] = @ \cup {"update"}]
    /\ pc' = [pc EXCEPT ![w] = "upd_pass"]
    /\ UNCHANGED <<disk, dbState, cred, tmp, resp, sync_success, conn, seen>>
    /\ UNCHANGED fetchVars

\* config_data['connection']['password'] = password
UpdateSetPassword(w) ==
    /\ pc[w] = "upd_pass"
    /\ template' = [template EXCEPT !.password = cred[w].password]
    /\ pc' = [pc EXCEPT ![w] = "upd_mkstemp"]
    /\ UNCHANGED <<disk, dbState, cred, tmp, resp, sync_success, conn, seen, did>>
    /\ UNCHANGED fetchVars

\* tempfile.mkstemp(dir=GARMINDB_DATA_DIR)
UpdateMkstemp(w) ==
    /\ pc[w] = "upd_mkstemp"
    /\ tmp' = [tmp EXCEPT ![w] = EmptyFile]
    /\ pc' = [pc EXCEPT ![w] = "upd_dump_user"]
    /\ UNCHANGED <<template, disk, dbState, cred, resp, sync_success, conn, seen, did>>
    /\ UNCHANGED fetchVars

\* json.dump(config_data, tf): the username reaches the temporary file
UpdateDumpUsername_inPlace(w) ==
    /\ pc[w] = "upd_dump_user"
    /\ disk' = [EmptyFile EXCEPT !.username = template.username]
    /\ pc' = [pc EXCEPT ![w] = "upd_dump_pass"]
    /\ UNCHANGED <<template, tmp, dbState, cred, resp, sync_success, conn, seen, did>>
    /\ UNCHANGED fetchVars

UpdateDumpUsername(w) ==
    /\ pc[w] = "upd_dump_user"
    /\ tmp' = [tmp EXCEPT ![w].username = template.username]
    /\ pc' = [pc EXCEPT ![w] = "upd_dump_pass"]
    /\ UNCHANGED <<template, disk, dbState, cred, resp, sync_success, conn, seen, did>>
    /\ UNCHANGED fetchVars

\* json.dump(config_data, tf): the password and the rest of the document
UpdateDumpPassword(w) ==
    /\ pc[w] = "upd_dump_pass"
    /\ tmp' = [tmp EXCEPT ![w].password = template.password]
    /\ pc' = [pc EXCEPT ![w] = "upd_rename"]
    /\ UNCHANGED <<template, disk, dbState, cred, resp, sync_success, conn, seen, did>>
    /\ UNCHANGED fetchVars

\* os.rename(temp_path, GARMINDB_CONFIG_FILE); return True
UpdateRename_noReplace(w) ==
    /\ pc[w] = "upd_rename"
    /\ tmp' = [tmp EXCEPT ![w] = NoFile]
    /\ did' = [did EXCEPT ![w] = @ \cup {"updated"}]
    /\ pc' = [pc EXCEPT ![w] = "sync_launch"]
    /\ UNCHANGED <<template, disk, dbState, cred, resp, sync_success, conn, seen>>
    /\ UNCHANGED fetchVars

UpdateRename(w) ==
    /\ pc[w] = "upd_rename"
    /\ disk' = tmp[w]
    /\ tmp' = [tmp EXCEPT ![w] = NoFile]
    /\ did' = [did EXCEPT ![w] = @ \cup {"updated"}]
    /\ pc' = [pc EXCEPT ![w] = "sync_launch"]
    /\ UNCHANGED <<template, dbState, cred, resp, sync_success, conn, seen>>
    /\ UNCHANGED fetchVars

\* An exception in the try block (ensure_data_dir_exists, mkstemp, json.dump,
\* os.rename): the temporary file is removed, update_config_file returns False
\* and login_and_fetch answers 500 at once.
UpdateFails(w) ==
    /\ pc[w] \in {"upd_user", "upd_mkstemp", "upd_dump_user", "upd_dump_pass", "upd_rename"}
    /\ tmp' = [tmp EXCEPT ![w] = NoFile]
    /\ did' = [did EXCEPT ![w] = @ \cup {"update"}]
    /\ resp' = [resp EXCEPT ![w] = ConfigFailedResponse]
    /\ pc' = [pc EXCEPT ![w] = "done"]
    /\ UNCHANGED <<template, disk, dbState, cred, sync_success, conn, seen>>
    /\ UNCHANGED fetchVars

\* ------------------------------------------------- clear_credentials_in_config

\* config_data['connection']['username'] = ""
ClearSetUsername_kept(w) ==
    /\ pc[w] = "clr_user"
    /\ template' = load_config_template(template)
    /\ did' = [did EXCEPT ![w] = @ \cup {"clear"}]
    /\ pc' = [pc EXCEPT ![w] = "clr_pass"]
    /\ UNCHANGED <<disk, dbState, cred, tmp, resp, sync_success, conn, seen>>
    /\ UNCHANGED fetchVars

ClearSetUsername(w) ==
    /\ pc[w] = "clr_user"
    /\ template' = [load_config_template(template) EXCEPT !.username = ""]
    /\ did' = [did EXCEPT ![w] = @ \cup {"clear"}]
    /\ pc' = [pc EXCEPT ![w] = "clr_pass"]
    /\ UNCHANGED <<disk, dbState, cred, tmp, resp, sync_success, conn, seen>>
    /\ UNCHANGED fetchVars

\* config_data['connection']['password'] = ""
ClearSetPassword(w) ==
    /\ pc[w] = "clr_pass"
    /\ template' = [template EXCEPT !.password = ""]
    /\ pc' = [pc EXCEPT ![w] = "clr_mkstemp"]
    /\ UNCHANGED <<disk, dbState, cred, tmp, resp, sync_success, conn, seen, did>>
    /\ UNCHANGED fetchVars

\* tempfile.mkstemp(dir=GARMINDB_DATA_DIR)
ClearMkstemp(w) ==
    /\ pc[w] = "clr_mkstemp"
    /\ tmp' = [tmp EXCEPT ![w] = EmptyFile]
    /\ pc' = [pc EXCEPT ![w] = "clr_dump_user"]
    /\ UNCHANGED <<template, disk, dbState, cred, resp, sync_success, conn, seen, did>>
    /\ UNCHANGED fetchVars

\* json.dump(config_data, tf): the username reaches the temporary file
ClearDumpUsername(w) ==
    /\ pc[w] = "clr_dump_user"
    /\ tmp' = [tmp EXCEPT ![w].username = template.username]
    /\ pc' = [pc EXCEPT ![w] = "clr_dump_pass"]
    /\ UNCHANGED <<template, disk, dbState, cred, resp, sync_success, conn, seen, did>>
    /\ UNCHANGED fetchVars

\* json.dump(config_data, tf): the password and the rest of the document
ClearDumpPassword(w) ==
    /\ pc[w] = "clr_dump_pass"
    /\ tmp' = [tmp EXCEPT ![w].password = template.password]
    /\ pc' = [pc EXCEPT ![w] = "clr_rename"]
    /\ UNCHANGED <<template, disk, dbState, cred, resp, sync_success, conn, seen, did>>
    /\ UNCHANGED fetchVars

\* os.rename(temp_path, GARMINDB_CONFIG_FILE); return True; the handler responds
ClearRename(w) ==
    /\ pc[w] = "clr_rename"
    /\ disk' = tmp[w]
    /\ tmp' = [tmp EXCEPT ![w] = NoFile]
    /\ did' = [did EXCEPT ![w] = @ \cup {"cleared"}]
    /\ pc' = [pc EXCEPT ![w] = "done"]
    /\ UNCHANGED <<template, dbState, cred, resp, sync_success, conn, seen>>
    /\ UNCHANGED fetchVars

\* An exception in the try block (ensure_data_dir_exists, mkstemp, json.dump,
\* os.rename).  FileNotFoundError: return True.  Any other: the temporary file
\* is removed, return False, which the finally block of login_and_fetch logs.
\* Either way the config file is as it was and the handler then responds.
ClearFails(w) ==
    /\ pc[w] \in {"clr_user", "clr_mkstemp", "clr_dump_user", "clr_dump_pass", "clr_rename"}
    /\ tmp' = [tmp EXCEPT ![w] = NoFile]
    /\ did' = [did EXCEPT ![w] = @ \cup {"clear"}]
    /\ pc' = [pc EXCEPT ![w] = "done"]
    /\ UNCHANGED <<template, disk, dbState, cred, resp, sync_success, conn, seen>>
    /\ UNCHANGED fetchVars

\* ------------------------------------------------- login_and_fetch: the sync

\* subprocess.run(command, check=True, cwd=...): the tool starts
SyncLaunch(w) ==
    /\ pc[w] = "sync_launch"
    /\ did' = [did EXCEPT ![w] = @ \cup {"sync"}]
    /\ pc' = [pc EXCEPT ![w] = "sync_run"]
    /\ UNCHANGED <<template, disk, dbState, cred, tmp, resp, sync_success, conn, seen>>
    /\ UNCHANGED fetchVars

\* subprocess.run raises FileNotFoundError: the interpreter is not on the PATH
SyncToolNotFound(w) ==
    /\ pc[w] = "sync_launch"
    /\ resp' = [resp EXCEPT ![w] = ToolNotFoundResponse]
    /\ pc' = [pc EXCEPT ![w] = "clr_user"]
    /\ UNCHANGED <<template, disk, dbState, cred, tmp, sync_success, conn, seen, did>>
    /\ UNCHANGED fetchVars

\* The tool reads its credentials from the config file.
ToolReadsConfig(w) ==
    /\ pc[w] = "sync_run"
    /\ pc' = [pc EXCEPT ![w] = "sync_wait"]
    /\ UNCHANGED <<template, disk, dbState, cred, tmp, resp, sync_success, conn, seen, did>>
    /\ UNCHANGED fetchVars

\* The execution time bound elapses while the tool still runs.  Only a
\* subprocess.run with timeout= raises TimeoutExpired, which the handler answers
\* with 504; without it the handler waits on.
TimeBoundElapses(w) ==
    /\ pc[w] = "sync_wait"
    /\ IF SyncTimeoutConfigured
       THEN /\ resp' = [resp EXCEPT ![w] = SyncTimeoutResponse]
            /\ pc' = [pc EXCEPT ![w] = "clr_user"]
       ELSE /\ resp' = resp
            /\ pc' = [pc EXCEPT ![w] = "sync_overdue"]
    /\ UNCHANGED <<template, disk, dbState, cred, tmp, sync_success, conn, seen, did>>
    /\ UNCHANGED fetchVars

\* The tool exits, having created or updated the database file or not.
\* check=True: a non-zero exit raises CalledProcessError, answered with 500;
\* a zero exit sets sync_success and goes on to the database.
ToolExits_unchecked(w) ==
    /\ pc[w] \in {"sync_wait", "sync_overdue"}
    /\ \E code \in {"zero", "nonzero"} :
        /\ seen' = [seen EXCEPT ![w].exit = code]
        /\ sync_success' = [sync_success EXCEPT ![w] = TRUE]
        /\ resp' = resp
        /\ pc' = [pc EXCEPT ![w] = "db_read"]
    /\ dbState' \in DbAfterSync(dbState)
    /\ UNCHANGED <<template, disk, cred, tmp, conn, did>>
    /\ UNCHANGED fetchVars

ToolExits(w) ==
    /\ pc[w] \in {"sync_wait", "sync_overdue"}
    /\ \E code \in {"zero", "nonzero"} :
        /\ seen' = [seen EXCEPT ![w].exit = code]
        /\ IF code = "zero"
           THEN /\ sync_success' = [sync_success EXCEPT ![w] = TRUE]
                /\ resp' = resp
                /\ pc' = [pc EXCEPT ![w] = "db_read"]
           ELSE /\ sync_success' = sync_success
                /\ resp' = [resp EXCEPT ![w] = SyncFailedResponse]
                /\ pc' = [pc EXCEPT ![w] = "clr_user"]
    /\ dbState' \in DbAfterSync(dbState)
    /\ UNCHANGED <<template, disk, cred, tmp, conn, did>>
    /\ UNCHANGED fetchVars

\* --------------------------------------------- login_and_fetch: the database

\* os.path.exists(GARMINDB_DATABASE_PATH): absent, answer 200 with no rows.
\* Else sqlite3.connect, cursor.execute, fetchall, conn.close(), return; or
\* sqlite3.Error, whose handler answers by sync_success and does not close conn.
DbRead(w) ==
    /\ pc[w] = "db_read"
    /\ IF dbState = "absent"
       THEN /\ seen' = [seen EXCEPT ![w].db = "absent"]
            /\ resp' = [resp EXCEPT ![w] = NoDatabaseAfterSyncResponse]
            /\ UNCHANGED <<conn, did>>
       ELSE /\ seen' = [seen EXCEPT ![w].db = "present"]
            /\ did' = [did EXCEPT ![w] = @ \cup {"query"}]
            /\ IF dbState = "ok"
               THEN /\ conn' = [conn EXCEPT ![w] = "closed"]
                    /\ resp' = [resp EXCEPT ![w] = ActivitiesResponse]
               ELSE /\ conn' = [conn EXCEPT ![w] = "open"]
                    /\ resp' = [resp EXCEPT ![w] = StorageErrorResponse(sync_success[w])]
    /\ pc' = [pc EXCEPT ![w] = "clr_user"]
    /\ UNCHANGED <<template, disk, dbState, cred, tmp, sync_success>>
    /\ UNCHANGED fetchVars

\* The response is sent and the handler's frame is gone.
Finish(w) ==
    /\ pc[w] = "done"
    /\ pc' = [pc EXCEPT ![w] = "idle"]
    /\ cred' = [cred EXCEPT ![w] = NoBody]
    /\ tmp' = [tmp EXCEPT ![w] = NoFile]
    /\ resp' = [resp EXCEPT ![w] = NoResponse]
    /\ sync_success' = [sync_success EXCEPT ![w] = FALSE]
    /\ conn' = [conn EXCEPT ![w] = "none"]
    /\ seen' = [seen EXCEPT ![w] = NothingSeen]
    /\ did' = [did EXCEPT ![w] = {}]
    /\ UNCHANGED <<template, disk, dbState>>
    /\ UNCHANGED fetchVars

\* ------------------------------------------------------------------- get_data

\* os.path.exists(GARMINDB_DATABASE_PATH): absent, answer 200 with no rows.
\* Else sqlite3.connect, cursor.execute, fetchall, conn.close(), return; or
\* sqlite3.Error: 500, and conn is not closed.  (Without the exists check,
\* sqlite3.connect creates an empty database file and the query fails.)
GetData_noExistsCheck(f) ==
    /\ gpc[f] = "idle"
    /\ gseen' = [gseen EXCEPT ![f] = IF dbState = "absent" THEN "absent" ELSE "present"]
    /\ IF dbState = "ok"
       THEN /\ gconn' = [gconn EXCEPT ![f] = "closed"]
            /\ gresp' = [gresp EXCEPT ![f] = GetDataResponse]
            /\ dbState' = dbState
       ELSE /\ gconn' = [gconn EXCEPT ![f] = "open"]
            /\ gresp' = [gresp EXCEPT ![f] = GetDataStorageErrorResponse]
            /\ dbState' = "unreadable"
    /\ gpc' = [gpc EXCEPT ![f] = "done"]
    /\ UNCHANGED <<template, disk, pc, cred, tmp, resp, sync_success, conn, seen, did>>

GetData(f) ==
    /\ gpc[f] = "idle"
    /\ IF dbState = "absent"
       THEN /\ gseen' = [gseen EXCEPT ![f] = "absent"]
            /\ gresp' = [gresp EXCEPT ![f] = GetDataNoDatabaseResponse]
            /\ gconn' = gconn
       ELSE /\ gseen' = [gseen EXCEPT ![f] = "present"]
            /\ IF dbState = "ok"
               THEN /\ gconn' = [gconn EXCEPT ![f] = "closed"]
                    /\ gresp' = [gresp EXCEPT ![f] = GetDataResponse]
               ELSE /\ gconn' = [gconn EXCEPT ![f] = "open"]
                    /\ gresp' = [gresp EXCEPT ![f] = GetDataStorageErrorResponse]
    /\ gpc' = [gpc EXCEPT ![f] = "done"]
    /\ UNCHANGED <<template, disk, dbState, pc, cred, tmp, resp, sync_success, conn, seen, did>>

\* The response is sent and the handler's frame is gone.
GetDataFinish(f) ==
    /\ gpc[f] = "done"
    /\ gpc' = [gpc EXCEPT ![f] = "idle"]
    /\ gresp' = [gresp EXCEPT ![f] = NoResponse]
    /\ gconn' = [gconn EXCEPT ![f] = "none"]
    /\ gseen' = [gseen EXCEPT ![f] = "unchecked"]
    /\ UNCHANGED <<template, disk, dbState, pc, cred, tmp, resp, sync_success, conn, seen, did>>

\* ------------------------------------------------------------ specifications

\* The steps a handler thread takes by itself, once the request is in.
HandlerStep(w) ==
    \/ UpdateSetUsername(w) \/ UpdateSetPassword(w) \/ UpdateMkstemp(w)
    \/ UpdateDumpUsername(w) \/ UpdateDumpPassword(w) \/ UpdateRename(w)
    \/ SyncLaunch(w) \/ ToolReadsConfig(w)
    \/ DbRead(w)
    \/ ClearSetUsername(w) \/ ClearSetPassword(w) \/ ClearMkstemp(w)
    \/ ClearDumpUsername(w) \/ ClearDumpPassword(w) \/ ClearRename(w)
    \/ Finish(w)

\* What the file system, the PATH and the sync tool decide.
FileFault(w) == UpdateFails(w) \/ ClearFails(w)

ToolStep(w) == SyncToolNotFound(w) \/ TimeBoundElapses(w) \/ ToolExits(w)

FetchStep(f) == GetData(f) \/ GetDataFinish(f)

\* Threads of one process, interleaved freely.
Next ==
    \/ \E w \in SyncWorkers : LoginAndFetch(w)
    \/ \E w \in SyncWorkers : HandlerStep(w)
    \/ \E w \in SyncWorkers : FileFault(w)
    \/ \E w \in SyncWorkers : ToolStep(w)
    \/ \E f \in FetchWorkers : FetchStep(f)

Spec == Init /\ [][Next]_vars

\* The same, every file operation succeeding.
NextNoFault ==
    \/ \E w \in SyncWorkers : LoginAndFetch(w)
    \/ \E w \in SyncWorkers : HandlerStep(w)
    \/ \E w \in SyncWorkers : ToolStep(w)
    \/ \E f \in FetchWorkers : FetchStep(f)

NoFaultSpec == Init /\ [][NextNoFault]_vars

\* Sync-and-fetch requests handled one at a time: a request is taken up once
\* every earlier one has been answered.
NextSerial ==
    \/ \E w \in SyncWorkers : (\A v \in SyncWorkers : pc[v] = "idle") /\ LoginAndFetch(w)
    \/ \E w \in SyncWorkers : HandlerStep(w)
    \/ \E w \in SyncWorkers : FileFault(w)
    \/ \E w \in SyncWorkers : ToolStep(w)
    \/ \E f \in FetchWorkers : FetchStep(f)

SerialSpec == Init /\ [][NextSerial]_vars

\* A handler thread that can take a step eventually takes one.  Nothing makes
\* the sync tool exit.
FairSerialSpec == SerialSpec /\ \A w \in SyncWorkers : WF_vars(HandlerStep(w))

\* Some of the interleavings of NoFaultSpec: while a worker is inside
\* update_config_file or clear_credentials_in_config, past its first
\* assignment, no other sync-and-fetch worker takes a step, so no writer sees
\* the template change under it.
MidWriter == (UpdatePcs \ {"upd_user"}) \cup (ClearPcs \ {"clr_user"})

WritersUndisturbed(w) == \A v \in SyncWorkers \ {w} : pc[v] \notin MidWriter

NextWritersAtomic ==
    \/ \E w \in SyncWorkers : WritersUndisturbed(w) /\ LoginAndFetch(w)
    \/ \E w \in SyncWorkers : WritersUndisturbed(w) /\ HandlerStep(w)
    \/ \E w \in SyncWorkers : WritersUndisturbed(w) /\ ToolStep(w)
    \/ \E f \in FetchWorkers : FetchStep(f)

WritersAtomicSpec == Init /\ [][NextWritersAtomic]_vars

\* -------------------------------------------------------------------- claims

\* The body lacks a credential: a field is missing or is the empty string.
LacksCredentials(body) ==
    \/ body.username \in {Missing, ""}
    \/ body.password \in {Missing, ""}

\* The step with which worker w responds.
Responds(w) == pc[w] # "done" /\ pc'[w] = "done"

BlankDocument == [exists |-> TRUE, username |-> "", password |-> ""]

\* C1 (as stated): whenever a sync-and-fetch request with non-empty username
\* and password responds, whatever its outcome, a failing clear step included,
\* the config file's username and password are empty strings.
C1_Original ==
    [][\A w \in SyncWorkers :
        (Responds(w) /\ ~LacksCredentials(cred'[w])) => CredentialsBlank(disk')]_vars

\* C1 (amended): requests handled one at a time.  When a request with non-empty
\* username and password responds, the config file holds the blank document if
\* the request's clear step replaced the file; it still holds the request's own
\* credentials if the clear step failed; and it is as the step found it if the
\* credential write failed, after which no clear step runs.
C1_ClearedWhenClearSucceeds ==
    [][\A w \in SyncWorkers :
        (Responds(w) /\ ~LacksCredentials(cred'[w])) =>
            /\ ("cleared" \in did'[w]) => disk' = BlankDocument
            /\ ("clear" \in did'[w] /\ "cleared" \notin did'[w]) => disk' = Document(cred'[w])
            /\ ("clear" \notin did'[w]) => (disk' = disk /\ resp'[w] = ConfigFailedResponse)]_vars

\* A request whose sync failed has responded 500 and its clear step has blanked
\* the file.
C1_Witness ==
    \E w \in SyncWorkers :
        /\ pc[w] = "done" /\ ~LacksCredentials(cred[w])
        /\ seen[w].exit = "nonzero" /\ "cleared" \in did[w]
        /\ disk = BlankDocument

\* C2 (as stated): a request that passed credential validation has attempted
\* the clearing write by the time it responds, on every branch, the failed
\* credential write included.
C2_Original ==
    \A w \in SyncWorkers :
        (pc[w] = "done" /\ ~LacksCredentials(cred[w])) => "clear" \in did[w]

\* C3 (as stated): every file operation succeeding, whenever no sync-and-fetch
\* request is active the config file's username and password are empty
\* strings, however the concurrent requests interleaved.
C3_Original == NoActiveSync => CredentialsBlank(disk)

\* C4: a request whose body lacks username or password, or has either empty,
\* is answered 400 at once: it has called neither config writer, created no
\* temporary file, started no sync and opened no database.
C4_InvalidRejected ==
    \A w \in SyncWorkers :
        (pc[w] # "idle" /\ LacksCredentials(cred[w])) =>
            /\ pc[w] = "done"
            /\ resp[w].status = 400 /\ resp[w].error /\ resp[w].activities = "absent"
            /\ did[w] = {} /\ tmp[w] = NoFile /\ conn[w] = "none"
            /\ seen[w] = NothingSeen

\* A request with an empty password has been answered 400.
C4_Witness ==
    \E w \in SyncWorkers :
        /\ pc[w] = "done" /\ cred[w].password = "" /\ cred[w].username # ""
        /\ resp[w].status = 400

\* C5: once the sync tool has exited non-zero, the request queries no database,
\* and it responds 500 with an error body that has no activities field.
C5_SyncFailureIs500 ==
    \A w \in SyncWorkers :
        seen[w].exit = "nonzero" =>
            /\ "query" \notin did[w] /\ conn[w] = "none" /\ seen[w].db = "unchecked"
            /\ pc[w] \in ClearPcs \cup {"done"}
            /\ pc[w] = "done" =>
                /\ resp[w].status = 500 /\ resp[w].error
                /\ resp[w].activities = "absent" /\ ~resp[w].success

\* The tool wrote a readable database and exited non-zero; the request has
\* responded.
C5_Witness ==
    \E w \in SyncWorkers :
        pc[w] = "done" /\ seen[w].exit = "nonzero" /\ dbState = "ok"

\* C6 (as stated): a request whose sync tool has not exited within the
\* execution time bound eventually responds, with status 504.
C6_Original ==
    \A w \in SyncWorkers :
        (pc[w] = "sync_overdue") ~> (pc[w] = "done" /\ resp[w].status = 504)

\* C7: when the sync tool exited zero and the request then found no database
\* file, it responds 200 with success true, an empty activities list and a
\* message.
C7_NoDatabaseAfterSync ==
    \A w \in SyncWorkers :
        (pc[w] = "done" /\ seen[w].exit = "zero" /\ seen[w].db = "absent") =>
            /\ resp[w].status = 200 /\ resp[w].success
            /\ resp[w].activities = "empty" /\ resp[w].message /\ ~resp[w].error
            /\ "query" \notin did[w]

\* The tool exited zero, the request found no database file and has responded.
C7_Witness ==
    \E w \in SyncWorkers :
        pc[w] = "done" /\ seen[w].exit = "zero" /\ seen[w].db = "absent"

\* C8: a fetch-only request that finds no database file responds 200 with an
\* empty activities list and a message, no error; and no step of fetch-only
\* touches the config file, the template, a temporary file or a sync-and-fetch
\* request (so it starts no sync tool).
C8_FetchOnlyWithoutDatabase ==
    /\ [](\A f \in FetchWorkers :
            (gpc[f] = "done" /\ gseen[f] = "absent") =>
                /\ gresp[f].status = 200 /\ gresp[f].activities = "empty"
                /\ gresp[f].message /\ ~gresp[f].error
                /\ gconn[f] = "none")
    /\ [][(gpc' # gpc) =>
            /\ UNCHANGED <<template, disk, tmp, pc, did>>
            /\ \A f \in FetchWorkers :
                (gpc'[f] = "done" /\ gpc[f] # "done" /\ dbState = "absent") =>
                    gseen'[f] = "absent"]_vars

\* Fetch-only has answered with no database file there, while a sync-and-fetch
\* request is in flight.
C8_Witness ==
    \E f \in FetchWorkers :
        /\ gpc[f] = "done" /\ gseen[f] = "absent" /\ dbState = "absent"
        /\ \E w \in SyncWorkers : pc[w] = "sync_wait"

\* C9: the config file is absent or a complete document in every state, so at
\* every point of a write or clear, a failure or crash there included.  Only a
\* rename changes it, to the writer's complete temporary file, and that call
\* reports success; a write or clear that fails leaves it unchanged.
C9_AtomicReplace ==
    /\ [](disk.exists => Complete(disk))
    /\ [][/\ (disk' # disk) =>
              \E w \in SyncWorkers :
                /\ pc[w] \in {"upd_rename", "clr_rename"}
                /\ Complete(tmp[w]) /\ disk' = tmp[w]
                /\ (pc[w] = "upd_rename") => (pc'[w] = "sync_launch" /\ "updated" \in did'[w])
                /\ (pc[w] = "clr_rename") => ("cleared" \in did'[w])
          /\ \A w \in SyncWorkers :
                (\/ pc[w] \in UpdatePcs /\ pc'[w] = "done"
                 \/ pc[w] \in ClearPcs /\ pc'[w] = "done" /\ "cleared" \notin did'[w])
                => disk' = disk]_vars

\* A clear step has failed and the request has responded: the config file
\* still holds the complete document the credential write put there.
C9_Witness ==
    \E w \in SyncWorkers :
        /\ pc[w] = "done" /\ "clear" \in did[w] /\ "cleared" \notin did[w]
        /\ disk = Document(cred[w])

\* C10 (as stated): no handler responds with a database connection it opened
\* still open.
C10_Original ==
    /\ \A w \in SyncWorkers : pc[w] = "done" => conn[w] # "open"
    /\ \A f \in FetchWorkers : gpc[f] = "done" => gconn[f] # "open"


\* The step with which the sync tool started for worker w reads the config file.
ToolReads(w) == pc[w] = "sync_run" /\ pc'[w] = "sync_wait"

UsernamesSent == {CredentialsOf(v).username : v \in SyncWorkers}
PasswordsSent == {CredentialsOf(v).password : v \in SyncWorkers}

\* C11 (as stated): what a sync invocation reads from the config file is the
\* username/password pair of a sync request that has written its credentials,
\* never blank credentials.
C11_Original ==
    [][\A w \in SyncWorkers :
        ToolReads(w) =>
            \E v \in SyncWorkers :
                /\ "updated" \in did[v] /\ ~LacksCredentials(cred[v])
                /\ disk = Document(cred[v])]_vars

\* C11 (amended): a sync invocation starts only after its own request's
\* credential write replaced the file, and it reads a complete document, the
\* one most recently renamed into place by any credential write or clear.  Its
\* username is empty or a username some request sent, its password is empty or
\* a password some request sent: the pair may be the other request's, blank, or
\* a username and a password from different writers.
C11_ReadsLastReplacement ==
    [][\A w \in SyncWorkers :
        ToolReads(w) =>
            /\ "updated" \in did[w] /\ ~LacksCredentials(cred[w])
            /\ Complete(disk)
            /\ disk.username \in UsernamesSent \cup {""}
            /\ disk.password \in PasswordsSent \cup {""}]_vars

\* A sync tool is about to read the config file, which the other request's
\* clear step has blanked since this request wrote its credentials.
C11_Witness ==
    \E w, v \in SyncWorkers :
        /\ w # v
        /\ pc[w] = "sync_run" /\ "updated" \in did[w]
        /\ pc[v] = "done" /\ "cleared" \in did[v]
        /\ disk = BlankDocument

====
